---- MODULE Spec2Model ----
(***************************************************************************)
(* Model of app.py (Claude Chat Search): the indexing coordinator          *)
(* (reindex / run_indexer / indexing_status), the SQLite store it rebuilds *)
(* (init_db, index_jsonl_file) and the read handlers (search,              *)
(* conversation, status).                                                  *)
(*                                                                         *)
(* Strings the code inspects character by character are sequences of      *)
(* one-character strings; a JSON line is a tagged record.                  *)
(***************************************************************************)
EXTENDS Integers, Sequences, FiniteSets, TLC

\* ------------------------------------------------------------------ bounds
MaxJobs == 2        \* run_indexer threads that may be created in one behaviour
MaxReq == 2         \* concurrent POST /reindex handlers
MaxFiles == 2       \* *.jsonl files found by the glob

Jobs == 1..MaxJobs
Req == 1..MaxReq

\* ------------------------------------------------------- JSON-like values
Absent == "<absent>"    \* the key is not in the dict
Null == "<null>"        \* the key is there with JSON null (Python None)
None == "<None>"        \* Python None in the job state / a response

Str(s) == [kind |-> "str", s |-> s, blocks |-> <<>>]
List(bs) == [kind |-> "list", s |-> <<>>, blocks |-> bs]
NoContent == [kind |-> "absent", s |-> <<>>, blocks |-> <<>>]
OtherContent == [kind |-> "other", s |-> <<>>, blocks |-> <<>>]

TextBlock(t) == [kind |-> "dict", type |-> "text", text |-> t, srcType |-> Absent, data |-> <<>>]
DocBlock(st, d) == [kind |-> "dict", type |-> "document", text |-> <<>>, srcType |-> st, data |-> d]
ToolBlock == [kind |-> "dict", type |-> "tool_use", text |-> <<>>, srcType |-> Absent, data |-> <<>>]
StrBlock(t) == [kind |-> "str", type |-> Absent, text |-> t, srcType |-> Absent, data |-> <<>>]

Msg(role, content) == [kind |-> "dict", role |-> role, content |-> content]
NoMsg == [kind |-> "absent", role |-> Absent, content |-> NoContent]
NullMsg == [kind |-> "null", role |-> Absent, content |-> NoContent]
StrMsg == [kind |-> "str", role |-> Absent, content |-> NoContent]

\* one line of a .jsonl file
BadJson == [json |-> "invalid", type |-> Absent, sessionId |-> Absent,
            timestamp |-> Absent, message |-> NoMsg]
NonObject == [json |-> "nonobject", type |-> Absent, sessionId |-> Absent,
              timestamp |-> Absent, message |-> NoMsg]
Obj(type, sid, ts, msg) == [json |-> "object", type |-> type, sessionId |-> sid,
                            timestamp |-> ts, message |-> msg]

\* ---------------------------------------------------------- pure helpers
IsSpace(c) == c \in {" ", "\n"}

\* str.strip() == "" : every character is whitespace
Blank(s) == \A k \in 1..Len(s) : IsSpace(s[k])

RECURSIVE SplitFrom(_, _, _)
\* str.split(sep): the segments of s from position k on, cur being the segment so far
SplitFrom(s, k, cur) ==
    IF k > Len(s) THEN <<cur>>
    ELSE IF s[k] = "-" THEN <<cur>> \o SplitFrom(s, k + 1, <<>>)
    ELSE SplitFrom(s, k + 1, Append(cur, s[k]))

Split(s) == SplitFrom(s, 1, <<>>)

RECURSIVE Join(_, _)
\* sep.join(parts)
Join(parts, sep) ==
    IF Len(parts) = 0 THEN <<>>
    ELSE IF Len(parts) = 1 THEN parts[1]
    ELSE parts[1] \o sep \o Join(Tail(parts), sep)

CodeSeg == <<"c", "o", "d", "e">>

\* parts.index("code"): the first position holding the segment "code"
IndexOfCode(parts) == CHOOSE k \in 1..Len(parts) :
    parts[k] = CodeSeg /\ \A m \in 1..(k - 1) : parts[m] # CodeSeg

\* the segments after the first "code", whatever their number
extract_project_name_after_code(folder_name) ==
    LET parts == Split(folder_name) IN
    IF \E k \in 1..Len(parts) : parts[k] = CodeSeg
    THEN Join(SubSeq(parts, IndexOfCode(parts) + 1, Len(parts)), <<"-">>)
    ELSE parts[Len(parts)]

extract_project_name(folder_name) ==
    LET parts == Split(folder_name) IN
    IF \E k \in 1..Len(parts) : parts[k] = CodeSeg
    THEN LET idx == IndexOfCode(parts) IN
         IF idx < Len(parts)
         THEN Join(SubSeq(parts, idx + 1, Len(parts)), <<"-">>)
         ELSE folder_name
    ELSE parts[Len(parts)]

RECURSIVE BlockTexts(_)
\* the texts list built by the loop over the content blocks
BlockTexts(blocks) ==
    IF Len(blocks) = 0 THEN <<>>
    ELSE LET b == Head(blocks)
             t == IF b.kind = "str" THEN <<b.text>>
                  ELSE IF b.type = "text" THEN <<b.text>>
                  ELSE IF b.type = "document" /\ b.srcType = "text" THEN <<b.data>>
                  ELSE <<>>
         IN t \o BlockTexts(Tail(blocks))

extract_text_content(content) ==
    IF content.kind = "str" THEN content.s
    ELSE IF content.kind = "list" THEN Join(BlockTexts(content.blocks), <<"\n">>)
    ELSE <<>>

\* ------------------------------------------------------------- the corpus
\* a *.jsonl file: its path, its stem (base name without suffix), the name of
\* its parent folder, whether open() succeeds, and its lines
File(stem, folder, readable, lines) ==
    [path |-> stem \o ".jsonl", stem |-> stem, folder |-> folder, readable |-> readable,
     lines |-> lines]

FolderA == <<"-", "u", "-", "c", "o", "d", "e", "-", "p">>
FolderB == <<"-", "u", "-", "q">>

UserLine == Obj("user", "s1", "t2", Msg("user", Str(<<"a">>)))
AsstLine == Obj("assistant", "s1", "t1", Msg(Absent, List(<<TextBlock(<<"a">>), TextBlock(<<"b">>)>>)))
NoSidLine == Obj("user", Absent, Absent, Msg("user", Str(<<"b">>)))
SummaryLine == Obj("summary", "s1", "t0", NoMsg)

FileList == <<
    File("f1", FolderA, TRUE, <<UserLine, AsstLine>>),
    File("f2", FolderB, TRUE, <<BadJson, NoSidLine>>),
    File("f3", FolderA, TRUE, <<SummaryLine, NonObject, UserLine>>),
    File("f4", FolderB, FALSE, <<UserLine>>) >>

\* what CLAUDE_PROJECTS_DIR.glob("**/*.jsonl") can list
Corpora == {SubSeq(FileList, 1, n) : n \in 0..MaxFiles}

\* ------------------------------------------------------- index_jsonl_file
Doc(sid, ts, role, content, project, path) ==
    [session_id |-> sid, timestamp |-> ts, role |-> role, content |-> content,
     project |-> project, file_path |-> path]

NoDoc == Doc(Absent, Absent, Absent, <<>>, <<>>, Absent)

\* one pass of the loop body over a line: "skip" is a continue (also the
\* JSONDecodeError handler), "abort" an exception that only the handler around
\* the whole file catches, "doc" the row handed to INSERT
LineOutcome(line, file) ==
    IF line.json = "invalid" THEN [kind |-> "skip", doc |-> NoDoc]
    ELSE IF line.json # "object" THEN [kind |-> "abort", doc |-> NoDoc]
    ELSE IF line.type \notin {"user", "assistant"} THEN [kind |-> "skip", doc |-> NoDoc]
    ELSE IF line.message.kind \in {"null", "str"} THEN [kind |-> "abort", doc |-> NoDoc]
    ELSE LET message == line.message
             role == IF message.role = Absent THEN line.type ELSE message.role
             content == extract_text_content(message.content)
             session_id == IF line.sessionId = Absent THEN file.stem ELSE line.sessionId
             timestamp == IF line.timestamp = Absent THEN "" ELSE line.timestamp
         IN IF Blank(content) THEN [kind |-> "skip", doc |-> NoDoc]
            ELSE [kind |-> "doc",
                  doc |-> Doc(session_id, timestamp, role, content,
                              extract_project_name(file.folder), file.path)]

RECURSIVE RowsFrom(_, _)
\* the rows the loop hands to INSERT, in line order, from line k on, up to the
\* first line that raises out of the loop
RowsFrom(file, k) ==
    IF k > Len(file.lines) THEN <<>>
    ELSE LET o == LineOutcome(file.lines[k], file) IN
         IF o.kind = "abort" THEN <<>>
         ELSE IF o.kind = "doc" THEN <<o.doc>> \o RowsFrom(file, k + 1)
         ELSE RowsFrom(file, k + 1)

\* rows of a whole file; open() failing is caught by the handler around the file
Rows(file) == IF file.readable THEN RowsFrom(file, 1) ELSE <<>>

\* ------------------------------------------------------------------ state
VARIABLES
    corpus,             \* the files under CLAUDE_PROJECTS_DIR
    indexing_status,    \* the global dict
    reqPc,              \* each /reindex handler's position in reindex()
    reqJob,             \* the thread a handler created (0: none)
    announced,          \* threads whose handler has returned "started"
    jobPc,              \* each run_indexer thread's position
    jobI,               \* files processed so far (the loop's i + 1)
    jobCount,           \* total_messages
    jobErr,             \* the exception being handled
    connOpen,           \* the job's connection (conn) is open
    pendMsgs,           \* rows inserted on conn and not yet committed
    pendMeta,           \* metadata rows written on conn and not yet committed
    lockHolder,         \* the job whose conn holds SQLite's write lock (0: none)
    dbFile,             \* DB_PATH exists
    tblMessages,        \* table messages exists
    tblMetadata,        \* table metadata exists
    messages,           \* committed rows of messages
    metadata,           \* committed rows of metadata
    request,            \* the arguments of the call being served (NoCall: none)
    response            \* what that call returned (NoCall: not yet)

statusVars == <<indexing_status>>
reqVars == <<reqPc, reqJob, announced>>
jobVars == <<jobPc, jobI, jobCount, jobErr>>
connVars == <<connOpen, pendMsgs, pendMeta, lockHolder>>
storeVars == <<dbFile, tblMessages, tblMetadata, messages, metadata>>
callVars == <<request, response>>
vars == <<corpus, indexing_status, reqPc, reqJob, announced, jobPc, jobI, jobCount,
          jobErr, connOpen, pendMsgs, pendMeta, lockHolder, dbFile, tblMessages,
          tblMetadata, messages, metadata, request, response>>

NoCall == [op |-> "none"]

FreshStatus(running) == [running |-> running, progress |-> 0, total |-> 0, error |-> None]

\* a metadata row; writer is the rebuild that wrote it (not a column of the
\* table: it lets a property tell one rebuild's rows from another's)
MetaRow(key, value, writer) == [key |-> key, value |-> value, writer |-> writer]

\* datetime.now().isoformat() of the rebuild j: a string, distinct for every rebuild
Isoformat(j) == "T" \o ToString(j)

\* int(text) for the decimal strings str() gives
ParseInt(text) == CHOOSE n \in 0..99 : ToString(n) = text

\* INSERT OR REPLACE of rows into a table whose primary key is key
Upsert(table, rows) ==
    {m \in table : \A n \in rows : n.key # m.key} \cup rows

Init ==
    /\ corpus \in Corpora
    /\ indexing_status = FreshStatus(FALSE)
    /\ reqPc = [r \in Req |-> "idle"]
    /\ reqJob = [r \in Req |-> 0]
    /\ announced = {}
    /\ jobPc = [j \in Jobs |-> "none"]
    /\ jobI = [j \in Jobs |-> 0]
    /\ jobCount = [j \in Jobs |-> 0]
    /\ jobErr = [j \in Jobs |-> None]
    /\ connOpen = [j \in Jobs |-> FALSE]
    /\ pendMsgs = [j \in Jobs |-> <<>>]
    /\ pendMeta = [j \in Jobs |-> {}]
    /\ lockHolder = 0
    /\ dbFile = FALSE
    /\ tblMessages = FALSE
    /\ tblMetadata = FALSE
    /\ messages = <<>>
    /\ metadata = {}
    /\ request = NoCall
    /\ response = NoCall

\* ---------------------------------------------------------------- reindex
\* reindex without the test of line 284: a thread is started whatever the state
ReindexTestIgnoresRunning(running) == "l287"

\* line 284: the test of indexing_status["running"]
ReindexTest(running) == IF running THEN "l285" ELSE "l287"

ReindexCheck(r) ==
    /\ reqPc[r] = "idle"
    /\ reqPc' = [reqPc EXCEPT ![r] = ReindexTest(indexing_status.running)]
    /\ UNCHANGED <<corpus, callVars, indexing_status, reqJob, announced, jobVars, connVars, storeVars>>

\* line 285: return {"status": "already_running"}
ReindexReturnAlreadyRunning(r) ==
    /\ reqPc[r] = "l285"
    /\ reqPc' = [reqPc EXCEPT ![r] = "idle"]
    /\ UNCHANGED <<corpus, callVars, indexing_status, reqJob, announced, jobVars, connVars, storeVars>>

FreeJobs == {j \in Jobs : jobPc[j] = "none"}

\* lines 287-289: the thread is created and started; it has not run a line of
\* run_indexer yet
ReindexSpawn(r) ==
    /\ reqPc[r] = "l287"
    /\ FreeJobs # {}
    /\ LET j == CHOOSE k \in FreeJobs : \A m \in FreeJobs : k <= m IN
        /\ jobPc' = [jobPc EXCEPT ![j] = "l134"]
        /\ reqJob' = [reqJob EXCEPT ![r] = j]
    /\ reqPc' = [reqPc EXCEPT ![r] = "l291"]
    /\ UNCHANGED <<corpus, callVars, indexing_status, announced, jobI, jobCount, jobErr, connVars, storeVars>>

\* line 291: return {"status": "started"}
ReindexReturnStarted(r) ==
    /\ reqPc[r] = "l291"
    /\ announced' = announced \cup {reqJob[r]}
    /\ reqJob' = [reqJob EXCEPT ![r] = 0]
    /\ reqPc' = [reqPc EXCEPT ![r] = "idle"]
    /\ UNCHANGED <<corpus, callVars, indexing_status, jobVars, connVars, storeVars>>

\* ------------------------------------------------------------ run_indexer
\* line 134: the global is rebound to a fresh dict
JobStart(j) ==
    /\ jobPc[j] = "l134"
    /\ indexing_status' = FreshStatus(TRUE)
    /\ jobPc' = [jobPc EXCEPT ![j] = "l138"]
    /\ UNCHANGED <<corpus, callVars, reqVars, jobI, jobCount, jobErr, connVars, storeVars>>

\* lines 138-139: the glob, and total
JobGlob(j) ==
    /\ jobPc[j] = "l138"
    /\ indexing_status' = [indexing_status EXCEPT !.total = Len(corpus)]
    /\ jobPc' = [jobPc EXCEPT ![j] = "drop_messages"]
    /\ UNCHANGED <<corpus, callVars, reqVars, jobI, jobCount, jobErr, connVars, storeVars>>

\* init_db (line 142): executescript runs the four statements one by one, each
\* in its own transaction, on a connection of its own.  A statement that
\* writes needs the write lock, which another connection's open transaction
\* holds until it commits.
\* DROP TABLE IF EXISTS messages
DropMessages(j) ==
    /\ jobPc[j] = "drop_messages"
    /\ tblMessages => lockHolder = 0
    /\ dbFile' = TRUE
    /\ tblMessages' = FALSE
    /\ messages' = <<>>
    /\ jobPc' = [jobPc EXCEPT ![j] = "drop_metadata"]
    /\ UNCHANGED <<corpus, callVars, indexing_status, reqVars, jobI, jobCount, jobErr, connVars,
                   tblMetadata, metadata>>

\* DROP TABLE IF EXISTS metadata
DropMetadata(j) ==
    /\ jobPc[j] = "drop_metadata"
    /\ tblMetadata => lockHolder = 0
    /\ tblMetadata' = FALSE
    /\ metadata' = {}
    /\ jobPc' = [jobPc EXCEPT ![j] = "create_messages"]
    /\ UNCHANGED <<corpus, callVars, indexing_status, reqVars, jobI, jobCount, jobErr, connVars,
                   dbFile, tblMessages, messages>>

\* CREATE VIRTUAL TABLE messages
CreateMessages(j) ==
    /\ jobPc[j] = "create_messages"
    /\ ~tblMessages
    /\ lockHolder = 0
    /\ tblMessages' = TRUE
    /\ jobPc' = [jobPc EXCEPT ![j] = "create_metadata"]
    /\ UNCHANGED <<corpus, callVars, indexing_status, reqVars, jobI, jobCount, jobErr, connVars,
                   dbFile, tblMetadata, messages, metadata>>

\* CREATE TABLE metadata, then lines 143-145: conn = get_db(), total_messages = 0
CreateMetadata(j) ==
    /\ jobPc[j] = "create_metadata"
    /\ ~tblMetadata
    /\ lockHolder = 0
    /\ tblMetadata' = TRUE
    /\ connOpen' = [connOpen EXCEPT ![j] = TRUE]
    /\ jobCount' = [jobCount EXCEPT ![j] = 0]
    /\ jobPc' = [jobPc EXCEPT ![j] = "loop"]
    /\ UNCHANGED <<corpus, callVars, indexing_status, reqVars, jobI, jobErr, pendMsgs, pendMeta,
                   lockHolder, dbFile, tblMessages, messages, metadata>>

CommitEvery == 50

\* lines 146-152 for one file, given the rows index_jsonl_file inserted: the
\* count is added, progress is set, and every 50th file conn is committed
AfterFile(j, inserted) ==
    LET n == jobI[j] + 1
        pend == pendMsgs[j] \o inserted
        holds == lockHolder = j \/ Len(inserted) > 0
    IN
    /\ jobCount' = [jobCount EXCEPT ![j] = @ + Len(inserted)]
    /\ jobI' = [jobI EXCEPT ![j] = n]
    /\ indexing_status' = [indexing_status EXCEPT !.progress = n]
    /\ IF n % CommitEvery = 0
       THEN /\ messages' = messages \o pend
            /\ pendMsgs' = [pendMsgs EXCEPT ![j] = <<>>]
            /\ lockHolder' = IF holds THEN 0 ELSE lockHolder
       ELSE /\ messages' = messages
            /\ pendMsgs' = [pendMsgs EXCEPT ![j] = pend]
            /\ lockHolder' = IF holds THEN j ELSE lockHolder
    /\ UNCHANGED <<corpus, callVars, reqVars, jobPc, jobErr, connOpen, pendMeta,
                   dbFile, tblMessages, tblMetadata, metadata>>

\* index_jsonl_file on the next file.  The first INSERT of the file takes the
\* write lock; with no messages table it raises, and the handler around the
\* file swallows that: the file then adds nothing.
IndexFile(j) ==
    /\ jobPc[j] = "loop"
    /\ jobI[j] < Len(corpus)
    /\ LET rows == Rows(corpus[jobI[j] + 1]) IN
        /\ rows # <<>> /\ tblMessages => lockHolder \in {0, j}
        /\ AfterFile(j, IF tblMessages THEN rows ELSE <<>>)

\* the same when another connection keeps the write lock past the busy
\* timeout: the first INSERT raises "database is locked", swallowed likewise
IndexFileLocked(j) ==
    /\ jobPc[j] = "loop"
    /\ jobI[j] < Len(corpus)
    /\ Rows(corpus[jobI[j] + 1]) # <<>>
    /\ tblMessages
    /\ lockHolder \notin {0, j}
    /\ AfterFile(j, <<>>)

\* line 155: conn.commit() after the loop
CommitRows(j) ==
    /\ jobPc[j] = "loop"
    /\ jobI[j] = Len(corpus)
    /\ messages' = messages \o pendMsgs[j]
    /\ pendMsgs' = [pendMsgs EXCEPT ![j] = <<>>]
    /\ lockHolder' = IF lockHolder = j THEN 0 ELSE lockHolder
    /\ jobPc' = [jobPc EXCEPT ![j] = "l156"]
    /\ UNCHANGED <<corpus, callVars, indexing_status, reqVars, jobI, jobCount, jobErr, connOpen,
                   pendMeta, dbFile, tblMessages, tblMetadata, metadata>>

\* last_indexed written and committed on its own, before message_count
InsertLastIndexedCommitted(j) ==
    /\ jobPc[j] = "l156"
    /\ tblMetadata
    /\ lockHolder \in {0, j}
    /\ metadata' = Upsert(metadata, {MetaRow("last_indexed", Isoformat(j), j)})
    /\ jobPc' = [jobPc EXCEPT ![j] = "l160"]
    /\ UNCHANGED <<corpus, callVars, indexing_status, reqVars, jobI, jobCount, jobErr, connVars,
                   dbFile, tblMessages, tblMetadata, messages>>

\* lines 156-159: INSERT OR REPLACE last_indexed
InsertLastIndexed(j) ==
    /\ jobPc[j] = "l156"
    /\ tblMetadata
    /\ lockHolder \in {0, j}
    /\ pendMeta' = [pendMeta EXCEPT ![j] = Upsert(@, {MetaRow("last_indexed", Isoformat(j), j)})]
    /\ lockHolder' = j
    /\ jobPc' = [jobPc EXCEPT ![j] = "l160"]
    /\ UNCHANGED <<corpus, callVars, indexing_status, reqVars, jobI, jobCount, jobErr, connOpen,
                   pendMsgs, storeVars>>

\* lines 160-163: INSERT OR REPLACE message_count, str(total_messages)
InsertMessageCount(j) ==
    /\ jobPc[j] = "l160"
    /\ pendMeta' = [pendMeta EXCEPT ![j] = Upsert(@, {MetaRow("message_count", ToString(jobCount[j]), j)})]
    /\ jobPc' = [jobPc EXCEPT ![j] = "l164"]
    /\ UNCHANGED <<corpus, callVars, indexing_status, reqVars, jobI, jobCount, jobErr, connOpen,
                   pendMsgs, lockHolder, storeVars>>

\* lines 164-165: conn.commit(); conn.close()
CommitMeta(j) ==
    /\ jobPc[j] = "l164"
    /\ metadata' = Upsert(metadata, pendMeta[j])
    /\ pendMeta' = [pendMeta EXCEPT ![j] = {}]
    /\ lockHolder' = IF lockHolder = j THEN 0 ELSE lockHolder
    /\ connOpen' = [connOpen EXCEPT ![j] = FALSE]
    /\ jobPc' = [jobPc EXCEPT ![j] = "l167"]
    /\ UNCHANGED <<corpus, callVars, indexing_status, reqVars, jobI, jobCount, jobErr, pendMsgs,
                   dbFile, tblMessages, tblMetadata, messages>>

\* line 167: running = False, and the function returns: its locals are gone
JobFinish(j) ==
    /\ jobPc[j] = "l167"
    /\ indexing_status' = [indexing_status EXCEPT !.running = FALSE]
    /\ jobPc' = [jobPc EXCEPT ![j] = "done"]
    /\ jobI' = [jobI EXCEPT ![j] = 0]
    /\ jobCount' = [jobCount EXCEPT ![j] = 0]
    /\ jobErr' = [jobErr EXCEPT ![j] = None]
    /\ UNCHANGED <<corpus, callVars, reqVars, connVars, storeVars>>

\* ------------------------------------------------- run_indexer: exceptions
\* the OperationalError the statement at pc raises in the store's present state
\* (None: it does not raise)
SqlError(j) ==
    CASE jobPc[j] = "drop_messages" ->
            IF tblMessages /\ lockHolder # 0 THEN "database is locked" ELSE None
      [] jobPc[j] = "drop_metadata" ->
            IF tblMetadata /\ lockHolder # 0 THEN "database is locked" ELSE None
      [] jobPc[j] = "create_messages" ->
            IF tblMessages THEN "table messages already exists"
            ELSE IF lockHolder # 0 THEN "database is locked" ELSE None
      [] jobPc[j] = "create_metadata" ->
            IF tblMetadata THEN "table metadata already exists"
            ELSE IF lockHolder # 0 THEN "database is locked" ELSE None
      [] jobPc[j] = "l156" ->
            IF ~tblMetadata THEN "no such table: metadata"
            ELSE IF lockHolder \notin {0, j} THEN "database is locked" ELSE None
      [] OTHER -> None

\* positions inside the try block (lines 136-168)
TryPcs == {"l138", "drop_messages", "drop_metadata", "create_messages", "create_metadata",
           "loop", "l156", "l160", "l164"}

\* a statement of the try block raises because of the store's state
JobSqlRaise(j) ==
    /\ SqlError(j) # None
    /\ jobErr' = [jobErr EXCEPT ![j] = SqlError(j)]
    /\ jobPc' = [jobPc EXCEPT ![j] = "l171"]
    /\ UNCHANGED <<corpus, callVars, indexing_status, reqVars, jobI, jobCount, connVars, storeVars>>

\* a statement of the try block raises because of its environment (the glob's
\* OSError, a disk I/O error of the store)
JobIoRaise(j) ==
    /\ jobPc[j] \in TryPcs
    /\ jobErr' = [jobErr EXCEPT ![j] = "I/O error"]
    /\ jobPc' = [jobPc EXCEPT ![j] = "l171"]
    /\ UNCHANGED <<corpus, callVars, indexing_status, reqVars, jobI, jobCount, connVars, storeVars>>

\* line 171: error = str(e)
JobSetError(j) ==
    /\ jobPc[j] = "l171"
    /\ indexing_status' = [indexing_status EXCEPT !.error = jobErr[j]]
    /\ jobPc' = [jobPc EXCEPT ![j] = "l172"]
    /\ UNCHANGED <<corpus, callVars, reqVars, jobI, jobCount, jobErr, connVars, storeVars>>

\* the handler returns without line 172
JobReturnsRunning(j) ==
    /\ jobPc[j] = "l172"
    /\ jobPc' = [jobPc EXCEPT ![j] = "done"]
    /\ jobI' = [jobI EXCEPT ![j] = 0]
    /\ jobCount' = [jobCount EXCEPT ![j] = 0]
    /\ jobErr' = [jobErr EXCEPT ![j] = None]
    /\ UNCHANGED <<corpus, callVars, indexing_status, reqVars, connVars, storeVars>>

\* line 172: running = False, and the function returns: its locals are gone
\* (conn is freed later, see ConnCollect)
JobClearRunning(j) ==
    /\ jobPc[j] = "l172"
    /\ indexing_status' = [indexing_status EXCEPT !.running = FALSE]
    /\ jobPc' = [jobPc EXCEPT ![j] = "done"]
    /\ jobI' = [jobI EXCEPT ![j] = 0]
    /\ jobCount' = [jobCount EXCEPT ![j] = 0]
    /\ jobErr' = [jobErr EXCEPT ![j] = None]
    /\ UNCHANGED <<corpus, callVars, reqVars, connVars, storeVars>>

\* the handler never closes conn: the connection of a failed job stays open,
\* with its transaction and its lock, until the interpreter frees it; its
\* uncommitted rows are then rolled back
ConnCollect(j) ==
    /\ jobPc[j] = "done"
    /\ connOpen[j]
    /\ connOpen' = [connOpen EXCEPT ![j] = FALSE]
    /\ pendMsgs' = [pendMsgs EXCEPT ![j] = <<>>]
    /\ pendMeta' = [pendMeta EXCEPT ![j] = {}]
    /\ lockHolder' = IF lockHolder = j THEN 0 ELSE lockHolder
    /\ UNCHANGED <<corpus, callVars, indexing_status, reqVars, jobVars, storeVars>>

\* ----------------------------------------------------------- read handlers
SessionIds == {"s1", "f2", "zz"}

\* ORDER BY timestamp compares the strings; the rank of each one used here
TsRank(ts) == CASE ts = "" -> 0 [] ts = "t0" -> 1 [] ts = "t1" -> 2 [] ts = "t2" -> 3
                [] OTHER -> 4

RECURSIVE InsertSorted(_, _)
InsertSorted(sorted, d) ==
    IF Len(sorted) = 0 THEN <<d>>
    ELSE IF TsRank(d.timestamp) < TsRank(Head(sorted).timestamp) THEN <<d>> \o sorted
    ELSE <<Head(sorted)>> \o InsertSorted(Tail(sorted), d)

RECURSIVE OrderByTimestamp(_)
OrderByTimestamp(rows) ==
    IF Len(rows) = 0 THEN <<>>
    ELSE InsertSorted(OrderByTimestamp(SubSeq(rows, 1, Len(rows) - 1)), rows[Len(rows)])

RECURSIVE WhereSession(_, _)
WhereSession(rows, sid) ==
    IF Len(rows) = 0 THEN <<>>
    ELSE (IF Head(rows).session_id = sid THEN <<Head(rows)>> ELSE <<>>)
         \o WhereSession(Tail(rows), sid)

\* what conversation(session_id) gives in the present state: the SELECT raises
\* sqlite3.OperationalError when there is no messages table, and nothing in the
\* handler catches it
conversation(session_id) ==
    IF ~tblMessages
    THEN [raised |-> TRUE, session_id |-> session_id, messages |-> <<>>]
    ELSE [raised |-> FALSE, session_id |-> session_id,
          messages |-> OrderByTimestamp(WhereSession(messages, session_id))]

\* GET /conversation/<session_id>: get_db() creates the file when it is missing
\* a handler that runs init_db before its SELECT
ConversationResets(sid) ==
    /\ dbFile' = TRUE
    /\ tblMessages' = TRUE
    /\ tblMetadata' = TRUE
    /\ messages' = <<>>
    /\ metadata' = {}
    /\ UNCHANGED <<corpus, callVars, indexing_status, reqVars, jobVars, connVars>>

Conversation(sid) ==
    /\ dbFile' = TRUE
    /\ UNCHANGED <<corpus, callVars, indexing_status, reqVars, jobVars, connVars,
                   tblMessages, tblMetadata, messages, metadata>>

\* fetchone() of SELECT value FROM metadata WHERE key = ?
MetaValue(key) ==
    IF \E m \in metadata : m.key = key
    THEN (CHOOSE m \in metadata : m.key = key).value
    ELSE None

\* what status() gives in the present state
status ==
    IF ~dbFile \/ ~tblMetadata
    THEN [indexed |-> FALSE, last_indexed |-> None, message_count |-> 0,
          indexing |-> indexing_status]
    ELSE [indexed |-> TRUE, last_indexed |-> MetaValue("last_indexed"),
          message_count |-> IF MetaValue("message_count") = None THEN 0
                            ELSE ParseInt(MetaValue("message_count")),
          indexing |-> indexing_status]

\* GET /status: reads only
Status ==
    /\ status.indexed \in BOOLEAN
    /\ UNCHANGED vars

\* ------------------------------------------------------------------ search
MaxLimit == 200

IsWord(c) == c \in {"a", "b", "_"}

RECURSIVE LStrip(_)
LStrip(s) == IF Len(s) > 0 /\ IsSpace(Head(s)) THEN LStrip(Tail(s)) ELSE s

RECURSIVE RStrip(_)
RStrip(s) == IF Len(s) > 0 /\ IsSpace(s[Len(s)]) THEN RStrip(SubSeq(s, 1, Len(s) - 1)) ELSE s

\* str.strip()
Strip(s) == RStrip(LStrip(s))

\* re.sub with '' as the replacement: the character is deleted
ReplacementEmpty(c) == <<>>

\* what re.sub puts in the place of a character matching [^\w\s]
Replacement(c) == <<" ">>

RECURSIVE ReSub(_)
\* re.sub(r'[^\w\s]', ' ', query)
ReSub(s) ==
    IF Len(s) = 0 THEN <<>>
    ELSE (IF IsWord(Head(s)) \/ IsSpace(Head(s)) THEN <<Head(s)>> ELSE Replacement(Head(s)))
         \o ReSub(Tail(s))

RECURSIVE WordsFrom(_, _, _)
\* str.split(): the runs of characters between whitespace, from position k on
WordsFrom(s, k, cur) ==
    IF k > Len(s) THEN (IF cur = <<>> THEN <<>> ELSE <<cur>>)
    ELSE IF IsSpace(s[k])
         THEN (IF cur = <<>> THEN <<>> ELSE <<cur>>) \o WordsFrom(s, k + 1, <<>>)
         ELSE WordsFrom(s, k + 1, Append(cur, s[k]))

SplitWs(s) == WordsFrom(s, 1, <<>>)

\* line 196: each word with a * after it, joined by spaces
FtsQuery(words) == Join([k \in 1..Len(words) |-> words[k] \o <<"*">>], <<" ">>)

IsPrefix(p, w) == Len(p) <= Len(w) /\ SubSeq(w, 1, Len(p)) = p

\* messages MATCH 'w1* w2* ...': every word is the prefix of a token of the row
\* (the rows of the model hold text in content only)
RowMatches(row, words) ==
    \A k \in 1..Len(words) :
        \E t \in 1..Len(SplitWs(ReSub(row.content))) :
            IsPrefix(words[k], SplitWs(ReSub(row.content))[t])

Matching(rows, words) == SelectSeq(rows, LAMBDA row : RowMatches(row, words))

\* LIMIT n of SQLite: a negative n is no limit
SqlLimit(rows, n) ==
    IF n < 0 \/ n >= Len(rows) THEN rows ELSE SubSeq(rows, 1, n)

\* line 186: min(int(limit), 200)
EffectiveLimit(limit) == IF limit < MaxLimit THEN limit ELSE MaxLimit

NoSql == [ran |-> FALSE, match |-> <<>>, limit |-> 0]

\* what search gives for ?q=q&limit=limit in the present state: keys are the
\* keys of the JSON object returned, opened tells whether get_db() was called,
\* sql is the statement executed with its two parameters
search(q, limit) ==
    LET query == Strip(q)
        words == SplitWs(ReSub(query))
        sql == [ran |-> TRUE, match |-> FtsQuery(words), limit |-> EffectiveLimit(limit)]
    IN
    IF query = <<>>
    THEN [keys |-> {"results", "query"}, results |-> <<>>, query |-> query, count |-> 0,
          opened |-> FALSE, sql |-> NoSql]
    ELSE IF ~tblMessages \/ words = <<>>
    THEN [keys |-> {"results", "query", "error"}, results |-> <<>>, query |-> query,
          count |-> 0, opened |-> TRUE, sql |-> sql]
    ELSE LET results == SqlLimit(Matching(messages, words), EffectiveLimit(limit)) IN
         [keys |-> {"results", "query", "count"}, results |-> results, query |-> query,
          count |-> Len(results), opened |-> TRUE, sql |-> sql]

SearchQueries == {<<>>, <<" ">>, <<"a">>, <<"a", "-", "b">>}

\* GET /search: get_db() creates the file when it is missing
Search(q) ==
    /\ dbFile' = (dbFile \/ search(q, MaxLimit).opened)
    /\ UNCHANGED <<corpus, callVars, indexing_status, reqVars, jobVars, connVars,
                   tblMessages, tblMetadata, messages, metadata>>

\* ------------------------------------------------------------ specification
Next ==
    \/ \E r \in Req : ReindexCheck(r)
    \/ \E r \in Req : ReindexReturnAlreadyRunning(r)
    \/ \E r \in Req : ReindexSpawn(r)
    \/ \E r \in Req : ReindexReturnStarted(r)
    \/ \E j \in Jobs : JobStart(j)
    \/ \E j \in Jobs : JobGlob(j)
    \/ \E j \in Jobs : DropMessages(j)
    \/ \E j \in Jobs : DropMetadata(j)
    \/ \E j \in Jobs : CreateMessages(j)
    \/ \E j \in Jobs : CreateMetadata(j)
    \/ \E j \in Jobs : IndexFile(j)
    \/ \E j \in Jobs : IndexFileLocked(j)
    \/ \E j \in Jobs : CommitRows(j)
    \/ \E j \in Jobs : InsertLastIndexed(j)
    \/ \E j \in Jobs : InsertMessageCount(j)
    \/ \E j \in Jobs : CommitMeta(j)
    \/ \E j \in Jobs : JobFinish(j)
    \/ \E j \in Jobs : JobSqlRaise(j)
    \/ \E j \in Jobs : JobIoRaise(j)
    \/ \E j \in Jobs : JobSetError(j)
    \/ \E j \in Jobs : JobClearRunning(j)
    \/ \E j \in Jobs : ConnCollect(j)
    \/ \E sid \in SessionIds : Conversation(sid)
    \/ \E q \in SearchQueries : Search(q)
    \/ Status

Spec == Init /\ [][Next]_vars

\* ---------------------------------------------------------------- scanning
\* The run of line 298: run_indexer() called directly, before the server
\* starts, when there is no search.db.  No other thread exists.
MaxLines == 2       \* lines of a file of the scanned corpus

BlankLine == Obj("user", "s1", "t1", Msg("user", Str(<<" ">>)))
NullMsgLine == Obj("assistant", "s1", "t1", NullMsg)
NullSidLine == Obj("user", Null, "t1", Msg("user", Str(<<"a">>)))

ScanLines == {BadJson, NonObject, UserLine, AsstLine, NoSidLine, SummaryLine,
              BlankLine, NullMsgLine, NullSidLine}

LineSeqs == UNION {[1..n -> ScanLines] : n \in 0..MaxLines}

ScanCorpus(l1, l2) == <<File("f1", FolderA, TRUE, l1), File("f2", FolderB, TRUE, l2)>>

InitScan ==
    /\ \E l1 \in LineSeqs, l2 \in LineSeqs : corpus = ScanCorpus(l1, l2)
    /\ indexing_status = FreshStatus(FALSE)
    /\ reqPc = [r \in Req |-> "idle"]
    /\ reqJob = [r \in Req |-> 0]
    /\ announced = {}
    /\ jobPc = [j \in Jobs |-> IF j = 1 THEN "l134" ELSE "none"]
    /\ jobI = [j \in Jobs |-> 0]
    /\ jobCount = [j \in Jobs |-> 0]
    /\ jobErr = [j \in Jobs |-> None]
    /\ connOpen = [j \in Jobs |-> FALSE]
    /\ pendMsgs = [j \in Jobs |-> <<>>]
    /\ pendMeta = [j \in Jobs |-> {}]
    /\ lockHolder = 0
    /\ dbFile = FALSE
    /\ tblMessages = FALSE
    /\ tblMetadata = FALSE
    /\ messages = <<>>
    /\ metadata = {}
    /\ request = NoCall
    /\ response = NoCall

NextScan ==
    \/ JobStart(1)
    \/ JobGlob(1)
    \/ DropMessages(1)
    \/ DropMetadata(1)
    \/ CreateMessages(1)
    \/ CreateMetadata(1)
    \/ IndexFile(1)
    \/ CommitRows(1)
    \/ InsertLastIndexed(1)
    \/ InsertMessageCount(1)
    \/ CommitMeta(1)
    \/ JobFinish(1)
    \/ JobIoRaise(1)
    \/ JobSetError(1)
    \/ JobClearRunning(1)
    \/ ConnCollect(1)

SpecScan == InitScan /\ [][NextScan]_vars

\* ------------------------------------------------------- search requests
\* One GET /search served on a store left by earlier rebuilds.
MaxQuery == 4       \* characters of the q parameter

QueryChars == {"a", "b", " ", "-"}
Queries == UNION {[1..n -> QueryChars] : n \in 0..MaxQuery}
Limits == {-1, 0, 2, 50, MaxLimit, MaxLimit + 1, 500}

StoredRow == Doc("s1", "t1", "user", <<"a", "b">>, <<"p">>, "f1.jsonl")
StoreSizes == {0, 3, MaxLimit + 5}

InitSearch ==
    /\ corpus = <<>>
    /\ indexing_status = FreshStatus(FALSE)
    /\ reqPc = [r \in Req |-> "idle"]
    /\ reqJob = [r \in Req |-> 0]
    /\ announced = {}
    /\ jobPc = [j \in Jobs |-> "none"]
    /\ jobI = [j \in Jobs |-> 0]
    /\ jobCount = [j \in Jobs |-> 0]
    /\ jobErr = [j \in Jobs |-> None]
    /\ connOpen = [j \in Jobs |-> FALSE]
    /\ pendMsgs = [j \in Jobs |-> <<>>]
    /\ pendMeta = [j \in Jobs |-> {}]
    /\ lockHolder = 0
    /\ dbFile \in BOOLEAN
    /\ tblMessages \in BOOLEAN
    /\ tblMessages => dbFile
    /\ tblMetadata = tblMessages
    /\ \E n \in StoreSizes :
        /\ n > 0 => tblMessages
        /\ messages = [k \in 1..n |-> StoredRow]
    /\ metadata = {}
    /\ \E q \in Queries, l \in Limits : request = [op |-> "search", q |-> q, limit |-> l]
    /\ response = NoCall

\* search() from its first line to its return
DoSearch ==
    /\ request # NoCall
    /\ response = NoCall
    /\ response' = search(request.q, request.limit)
    /\ dbFile' = (dbFile \/ search(request.q, request.limit).opened)
    /\ UNCHANGED <<corpus, request, indexing_status, reqVars, jobVars, connVars,
                   tblMessages, tblMetadata, messages, metadata>>

NextSearch == DoSearch

SpecSearch == InitSearch /\ [][NextSearch]_vars

\* ------------------------------------------------------ project labels
\* extract_project_name on the name of the folder of one file.
MaxSegs == 4        \* segments of a folder name

Segments == {<<>>, CodeSeg, <<"p">>, <<"c", "o">>}
SegLists == UNION {[1..n -> Segments] : n \in 1..MaxSegs}

InitProject ==
    /\ corpus = <<>>
    /\ indexing_status = FreshStatus(FALSE)
    /\ reqPc = [r \in Req |-> "idle"]
    /\ reqJob = [r \in Req |-> 0]
    /\ announced = {}
    /\ jobPc = [j \in Jobs |-> "none"]
    /\ jobI = [j \in Jobs |-> 0]
    /\ jobCount = [j \in Jobs |-> 0]
    /\ jobErr = [j \in Jobs |-> None]
    /\ connOpen = [j \in Jobs |-> FALSE]
    /\ pendMsgs = [j \in Jobs |-> <<>>]
    /\ pendMeta = [j \in Jobs |-> {}]
    /\ lockHolder = 0
    /\ dbFile = FALSE
    /\ tblMessages = FALSE
    /\ tblMetadata = FALSE
    /\ messages = <<>>
    /\ metadata = {}
    /\ \E segs \in SegLists :
        request = [op |-> "extract_project_name", segments |-> segs,
                   folder_name |-> Join(segs, <<"-">>)]
    /\ response = NoCall

\* line 113: project = extract_project_name(jsonl_path.parent.name)
DoExtract ==
    /\ request # NoCall
    /\ response = NoCall
    /\ response' = [op |-> "extract_project_name",
                    value |-> extract_project_name(request.folder_name)]
    /\ UNCHANGED <<corpus, request, indexing_status, reqVars, jobVars, connVars, storeVars>>

NextProject == DoExtract

SpecProject == InitProject /\ [][NextProject]_vars

\* ------------------------------------------------- rebuilds under fairness
\* One client that calls reindex again and again, the read handlers, and the
\* job threads its calls start, over a corpus of one file.
OneFile == <<File("f1", FolderB, TRUE, <<UserLine>>)>>

InitRun ==
    /\ corpus = OneFile
    /\ indexing_status = FreshStatus(FALSE)
    /\ reqPc = [r \in Req |-> "idle"]
    /\ reqJob = [r \in Req |-> 0]
    /\ announced = {}
    /\ jobPc = [j \in Jobs |-> "none"]
    /\ jobI = [j \in Jobs |-> 0]
    /\ jobCount = [j \in Jobs |-> 0]
    /\ jobErr = [j \in Jobs |-> None]
    /\ connOpen = [j \in Jobs |-> FALSE]
    /\ pendMsgs = [j \in Jobs |-> <<>>]
    /\ pendMeta = [j \in Jobs |-> {}]
    /\ lockHolder = 0
    /\ dbFile = FALSE
    /\ tblMessages = FALSE
    /\ tblMetadata = FALSE
    /\ messages = <<>>
    /\ metadata = {}
    /\ request = NoCall
    /\ response = NoCall

\* one step of the thread that runs job j (the target of line 287) when
\* nothing of its environment fails
JobStep(j) ==
    \/ JobStart(j)
    \/ JobGlob(j)
    \/ DropMessages(j)
    \/ DropMetadata(j)
    \/ CreateMessages(j)
    \/ CreateMetadata(j)
    \/ IndexFile(j)
    \/ IndexFileLocked(j)
    \/ CommitRows(j)
    \/ InsertLastIndexed(j)
    \/ InsertMessageCount(j)
    \/ CommitMeta(j)
    \/ JobFinish(j)
    \/ JobSqlRaise(j)
    \/ JobSetError(j)
    \/ JobClearRunning(j)

NextRun ==
    \/ ReindexCheck(1)
    \/ ReindexReturnAlreadyRunning(1)
    \/ ReindexSpawn(1)
    \/ ReindexReturnStarted(1)
    \/ \E j \in Jobs : JobStep(j)
    \/ \E j \in Jobs : JobIoRaise(j)
    \/ \E j \in Jobs : ConnCollect(j)
    \/ \E sid \in SessionIds : Conversation(sid)
    \/ \E q \in SearchQueries : Search(q)
    \/ Status

SpecRun == InitRun /\ [][NextRun]_vars

\* a started thread keeps being scheduled, and a statement that waits for the
\* write lock gives up after the busy timeout (JobSqlRaise, IndexFileLocked):
\* a thread that is somewhere in run_indexer always has a step to take.
\* Nothing is assumed of the handlers, of the I/O errors or of the collector.
FairSpec == SpecRun /\ \A j \in Jobs : WF_vars(JobStep(j))

\* ------------------------------------------------------------------ claims
\* a run_indexer execution between its first statement (line 134) and its return
InFlight(j) == jobPc[j] \notin {"none", "l134", "done"}

\* C1: at most one run_indexer execution is in flight at any time.
OneJobAtATime == Cardinality({j \in Jobs : InFlight(j)}) <= 1

\* C2: once a reindex call has returned "started", a reindex call issued before
\* that job has finished goes to line 285 (it returns "already_running"), so it
\* starts no thread that would reset the job state.
StartedThenAlreadyRunning ==
    [][\A r \in Req :
        (/\ reqPc[r] = "idle"
         /\ reqPc'[r] # "idle"
         /\ \E j \in announced : jobPc[j] # "done")
        => reqPc'[r] = "l285"]_vars

\* C3: when reindex returns "started", the job state is already running with
\* progress 0, total 0 and no error.
StartedMeansRunning ==
    [][\A r \in Req :
        (reqPc[r] = "l291" /\ reqPc'[r] = "idle")
        => indexing_status' = FreshStatus(TRUE)]_vars

\* C4: a reindex call that finds running = True goes to line 285 and returns
\* "already_running"; neither of its two steps starts a thread or changes the
\* job state, the stored rows or the metadata.
AlreadyRunningIsNoOp ==
    [][\A r \in Req :
        /\ (reqPc[r] = "idle" /\ reqPc'[r] # "idle" /\ indexing_status.running)
            => /\ reqPc'[r] = "l285"
               /\ UNCHANGED <<indexing_status, reqJob, announced, jobVars, connVars, storeVars>>
        /\ (reqPc[r] = "l285" /\ reqPc'[r] # "l285")
            => /\ reqPc'[r] = "idle"
               /\ UNCHANGED <<indexing_status, reqJob, announced, jobVars, connVars, storeVars>>]_vars

\* C4 witness: a call has found the job running and is about to return
\* "already_running".
AlreadyRunningSeen == \E r \in Req : reqPc[r] = "l285" /\ indexing_status.running

\* C5: when a job that raised returns from its handler, the job state is idle
\* with an error: running is False and error is a message.
FailedJobEndsIdleWithError ==
    [][\A j \in Jobs :
        (jobPc[j] = "l172" /\ jobPc'[j] = "done")
        => (~indexing_status'.running /\ indexing_status'.error # None)]_vars

\* C6: the job state is never torn: an error is only ever there together with
\* running = False.
ErrorOnlyWhenIdle == indexing_status.error # None => ~indexing_status.running

\* no thread is in run_indexer, one has returned, and the job state is idle
\* without error
IdleAfterSuccess ==
    /\ \E j \in Jobs : jobPc[j] = "done"
    /\ \A j \in Jobs : jobPc[j] \in {"none", "done"}
    /\ ~indexing_status.running
    /\ indexing_status.error = None

\* C7: after a successful rebuild status reports indexed, a last_indexed, and
\* a message_count that is the number of rows in the store.
StatusAfterSuccess ==
    IdleAfterSuccess =>
        /\ status.indexed
        /\ status.last_indexed # None
        /\ status.message_count = Len(messages)

HasKey(key) == \E m \in metadata : m.key = key

\* C8: the committed metadata holds both keys or neither; both rows are of one
\* rebuild; and rows are there only once their rebuild has got past its last
\* commit (line 164).
MetadataKeysTogether ==
    /\ HasKey("last_indexed") <=> HasKey("message_count")
    /\ \A m, n \in metadata : m.writer = n.writer
    /\ \A m \in metadata : jobPc[m.writer] \in {"l167", "done"}

\* C8 witness: a rebuild has committed its two rows.
MetadataWritten == HasKey("last_indexed") /\ HasKey("message_count")

\* C9: conversation never raises, whatever the state and the session id, and
\* gives no messages for a session id without rows.
ConversationNeverRaises ==
    \A sid \in SessionIds :
        /\ ~conversation(sid).raised
        /\ WhereSession(messages, sid) = <<>> => conversation(sid).messages = <<>>

\* the rows that the lines of the corpus give when each line is taken alone
RECURSIVE LineDocs(_, _)
LineDocs(file, k) ==
    IF k > Len(file.lines) THEN <<>>
    ELSE LET o == LineOutcome(file.lines[k], file) IN
         (IF o.kind = "doc" THEN <<o.doc>> ELSE <<>>) \o LineDocs(file, k + 1)

RECURSIVE CorpusDocs(_, _)
CorpusDocs(files, n) ==
    IF n > Len(files) THEN <<>>
    ELSE (IF files[n].readable THEN LineDocs(files[n], 1) ELSE <<>>) \o CorpusDocs(files, n + 1)

\* C10: once the loop over the files is through and committed, the store holds
\* the row of every line that gives one on its own, whatever the other lines
\* of its file and the other files are.
EveryValidLineStored ==
    jobPc[1] \in {"l156", "l160", "l164", "l167"} => messages = CorpusDocs(corpus, 1)

\* C14: every document of the store has a session_id that is not null: the
\* sessionId of its record, or the base name of its file when the record has
\* none or has null.
SessionIdNeverNull ==
    \A k \in 1..Len(messages) :
        /\ messages[k].session_id # Null
        /\ messages[k].session_id \in {"s1", "f1", "f2"}

\* a record that is to give a document: type user or assistant and an
\* extracted content that is not blank
Qualifies(line) ==
    /\ line.json = "object"
    /\ line.type \in {"user", "assistant"}
    /\ line.message.kind \in {"dict", "absent"}
    /\ ~Blank(extract_text_content(line.message.content))

ExpectedRole(line) == IF line.message.role # Absent THEN line.message.role ELSE line.type

RECURSIVE ExpectedRoles(_, _, _)
\* the roles of the qualifying records from line k of file n on, in order
ExpectedRoles(files, n, k) ==
    IF n > Len(files) THEN <<>>
    ELSE IF k > Len(files[n].lines) THEN ExpectedRoles(files, n + 1, 1)
    ELSE (IF Qualifies(files[n].lines[k]) THEN <<ExpectedRole(files[n].lines[k])>> ELSE <<>>)
         \o ExpectedRoles(files, n, k + 1)

\* C15: once the loop over the files is through, the store holds one document
\* for each record of type user or assistant with non-blank content, with the
\* role of message.role or else of type, none for any other record, and no
\* document has blank content.
OneDocPerQualifyingRecord ==
    jobPc[1] \in {"l156", "l160", "l164", "l167"} =>
        /\ [k \in 1..Len(messages) |-> messages[k].role] = ExpectedRoles(corpus, 1, 1)
        /\ \A k \in 1..Len(messages) : ~Blank(messages[k].content)

CodePositions(segs) == {k \in 1..Len(segs) : segs[k] = CodeSeg}
FirstCode(segs) == CHOOSE k \in CodePositions(segs) : \A m \in CodePositions(segs) : k <= m
AfterFirstCode(segs) == Join(SubSeq(segs, FirstCode(segs) + 1, Len(segs)), <<"-">>)

\* C16 as stated: the label is everything after the segment named code, also
\* when code is the last segment, and the last segment when none is named code.
LabelIsAfterCode ==
    response # NoCall =>
        LET segs == request.segments IN
        response.value = IF CodePositions(segs) # {} THEN AfterFirstCode(segs)
                         ELSE segs[Len(segs)]

\* C16 amended: the label is everything after the first segment named code
\* when a segment follows it, the whole folder name when the first code is the
\* last segment, and the last segment when no segment is named code.
LabelOfFolder ==
    response # NoCall =>
        LET segs == request.segments IN
        response.value = IF CodePositions(segs) = {} THEN segs[Len(segs)]
                         ELSE IF FirstCode(segs) < Len(segs) THEN AfterFirstCode(segs)
                         ELSE request.folder_name

\* C16 witness: a folder name whose last segment is its only code has been
\* labelled with the whole folder name.
CodeLastLabelled ==
    /\ response # NoCall
    /\ request.segments = <<<<>>, <<"p">>, CodeSeg>>
    /\ response.value = <<"-", "p", "-", "c", "o", "d", "e">>

\* C17: under fair scheduling of the job threads, a job that is in
\* run_indexer reaches one of its two returns, whenever running is true it
\* becomes false again, and until a job returns only its own steps move it.
StartedJobTerminates ==
    /\ \A j \in Jobs : (jobPc[j] \notin {"none", "done"}) ~> (jobPc[j] = "done")
    /\ indexing_status.running ~> ~indexing_status.running
    /\ [][\A j \in Jobs :
            /\ (jobPc[j] \notin {"none", "done"} /\ ~(JobStep(j) \/ JobIoRaise(j))) =>
                    UNCHANGED <<jobPc[j], jobI[j], jobCount[j], jobErr[j]>>
            /\ (jobPc'[j] = "done" /\ jobPc[j] # "done") => jobPc[j] \in {"l167", "l172"}]_vars

\* C17 witness: a job that had set running has returned after an error, and
\* running is false.
FailedJobReturned ==
    \E j \in Jobs :
        /\ jobPc[j] = "done"
        /\ indexing_status.error # None
        /\ ~indexing_status.running

\* C18: a step of search, conversation or status leaves the documents, the
\* metadata, the tables and the job state as they are; the documents and the
\* metadata change only in a step of a job thread, and the documents only by
\* being emptied or by rows added at the end, never in place.
ReadsArePure ==
    [][/\ (Status \/ (\E sid \in SessionIds : Conversation(sid)) \/ (\E q \in SearchQueries : Search(q)))
            => UNCHANGED <<messages, metadata, tblMessages, tblMetadata, indexing_status,
                           jobVars, connVars>>
       /\ (messages' # messages \/ metadata' # metadata \/ tblMessages' # tblMessages
            \/ tblMetadata' # tblMetadata)
            => \E j \in Jobs : jobPc'[j] # jobPc[j] \/ jobI'[j] # jobI[j]
       /\ messages' # messages
            => \/ messages' = <<>>
               \/ /\ Len(messages') > Len(messages)
                  /\ SubSeq(messages', 1, Len(messages)) = messages]_vars

\* C18 witness: search or conversation has opened the store before any
\* rebuild was asked for, and nothing but the empty file is there.
ReadBeforeAnyRebuild ==
    /\ dbFile
    /\ \A j \in Jobs : jobPc[j] = "none"
    /\ \A r \in Req : reqPc[r] = "idle"
    /\ ~tblMessages /\ ~tblMetadata /\ messages = <<>> /\ metadata = {}
    /\ indexing_status = FreshStatus(FALSE)

\* C19: in every state, under any interleaving of reindex calls and job
\* steps, 0 <= progress <= total.
ProgressWithinTotal ==
    /\ 0 <= indexing_status.progress
    /\ indexing_status.progress <= indexing_status.total

\* C20: whenever status answers indexed = true, last_indexed is not null.
IndexedMeansLastIndexed ==
    status.indexed => status.last_indexed # None

\* C11: whatever integer limit the caller gives, a search response carries at
\* most 200 results.
AtMostMaxLimitResults ==
    response # NoCall => Len(response.results) <= MaxLimit

\* C12: for an empty or all-whitespace query the response is an empty result
\* list with count 0 and no error, and the store is not opened.
BlankQueryResponse ==
    (response # NoCall /\ Blank(request.q)) =>
        /\ response.results = <<>>
        /\ "count" \in response.keys
        /\ response.count = 0
        /\ "error" \notin response.keys
        /\ ~response.opened
        /\ ~response.sql.ran

\* the characters of s that are word characters or whitespace, the others deleted
RECURSIVE Stripped(_)
Stripped(s) ==
    IF Len(s) = 0 THEN <<>>
    ELSE (IF IsWord(Head(s)) \/ IsSpace(Head(s)) THEN <<Head(s)>> ELSE <<>>) \o Stripped(Tail(s))

\* C13 as stated: the query executed is made of the words left once every
\* character that is neither a word character nor whitespace is deleted.
MatchOfDeletedPunctuation ==
    (response # NoCall /\ response.sql.ran) =>
        response.sql.match = FtsQuery(SplitWs(Stripped(request.q)))

\* the maximal runs of word characters of s, from left to right
RunStarts(s) == {i \in 1..Len(s) : IsWord(s[i]) /\ (i = 1 \/ ~IsWord(s[i - 1]))}
RunEnd(s, i) == CHOOSE j \in i..Len(s) :
    /\ \A k \in i..j : IsWord(s[k])
    /\ j = Len(s) \/ ~IsWord(s[j + 1])
NthStart(s, n) == CHOOSE i \in RunStarts(s) : Cardinality({x \in RunStarts(s) : x < i}) = n - 1
Runs(s) == [n \in 1..Cardinality(RunStarts(s)) |-> SubSeq(s, NthStart(s, n), RunEnd(s, NthStart(s, n)))]

\* C13 amended: every character that is neither a word character nor
\* whitespace separates words like a space, so the words of the query executed
\* are the maximal runs of word characters, each followed by *; a query
\* without any word gives an empty result list.
MatchOfWordRuns ==
    response # NoCall =>
        /\ response.sql.ran => response.sql.match = FtsQuery(Runs(request.q))
        /\ Runs(request.q) = <<>> => response.results = <<>>

\* C13 witness: a query with punctuation between two words has been executed
\* as two prefix words.
PunctuationSplitsWords ==
    /\ response # NoCall
    /\ request.q = <<"a", "-", "b">>
    /\ response.sql.ran
    /\ response.sql.match = <<"a", "*", " ", "b", "*">>

====
